---- MODULE Spec2Model ----
(***************************************************************************)
(* Model of the multilingual retrieval system:                             *)
(*   - retrival_system.py : search_multilingual, search_bm25 and           *)
(*     search_hybrid (outer merge, normalisation, weighted sum, sort,      *)
(*     truncation);                                                        *)
(*   - streamlit_app.py   : the session state and the Build / Search       *)
(*     handlers of the script.                                             *)
(*                                                                         *)
(* Floating point scores are modelled as exact rationals [n, d]; the       *)
(* float NaN that pandas puts in the missing side of an outer merge is     *)
(* the value NaN below and propagates through arithmetic as in IEEE 754.   *)
(* The lang and text payload columns are carried only as column names.     *)
(***************************************************************************)
EXTENDS Integers, Sequences, FiniteSets

\* ------------------------------------------------------------- bounds
NumDocs == 2
MaxCorpus == 2
MaxStore == 2
MaxScore == 2
MaxTopK == 2
AlphaDen == 2
MaxBatch == 2
ScaleDen == 2
MaxClock == 3

VARIABLES
    \* search_hybrid: arguments
    store, meta, top_k, alpha,
    \* search_hybrid: locals and control
    pc, err, df_sem, df_bm, df, result, sem_calls, bm_calls,
    \* streamlit_app: widgets, session state, clock, output of the last run
    uploaded_file, vectorstore, docs_df, last_build_time, now, alert, ran, backend_up

searchVars == <<store, meta, top_k, alpha, pc, err, df_sem, df_bm, df, result,
                sem_calls, bm_calls>>
appVars == <<uploaded_file, vectorstore, docs_df, last_build_time, now, alert, ran,
             backend_up>>
vars == <<searchVars, appVars>>

\* ------------------------------------------------------ float values
NaN == [n |-> 0, d |-> 0]

IsNaN(x) == x.d = 0

notna(x) == ~IsNaN(x)

Abs(a) == IF a < 0 THEN -a ELSE a

RECURSIVE GCD(_, _)
GCD(a, b) == IF b = 0 THEN a ELSE GCD(b, a % b)

\* the rational n/d (d > 0) in lowest terms
Rat(n, d) == LET g == GCD(Abs(n), d) IN [n |-> n \div g, d |-> d \div g]

Zero == Rat(0, 1)

One == Rat(1, 1)

RAdd(x, y) == IF IsNaN(x) \/ IsNaN(y) THEN NaN ELSE Rat(x.n * y.d + y.n * x.d, x.d * y.d)

RSub(x, y) == IF IsNaN(x) \/ IsNaN(y) THEN NaN ELSE Rat(x.n * y.d - y.n * x.d, x.d * y.d)

RMul(x, y) == IF IsNaN(x) \/ IsNaN(y) THEN NaN ELSE Rat(x.n * y.n, x.d * y.d)

\* x / y for y # 0 (the code divides only by a maximum it found non-zero)
RDiv(x, y) ==
    IF IsNaN(x) \/ IsNaN(y) THEN NaN
    ELSE IF y.n > 0 THEN Rat(x.n * y.d, x.d * y.n)
    ELSE Rat(-(x.n * y.d), x.d * (-y.n))

\* comparisons with a NaN are false
RLt(x, y) == notna(x) /\ notna(y) /\ x.n * y.d < y.n * x.d

RLeq(x, y) == notna(x) /\ notna(y) /\ x.n * y.d <= y.n * x.d

\* ------------------------------------------------- frames (DataFrame)
SeqsUpTo(S, lo, hi) == UNION {[1..n -> S] : n \in lo..hi}

Min(a, b) == IF a < b THEN a ELSE b

Max(a, b) == IF a < b THEN b ELSE a

\* DataFrame.head(n), negative n included
head(s, n) ==
    IF n >= 0 THEN SubSeq(s, 1, Min(n, Len(s)))
    ELSE SubSeq(s, 1, Max(0, Len(s) + n))

\* Series.max(): the largest value that is not NaN, NaN when there is none
RECURSIVE SeriesMax(_)
SeriesMax(col) ==
    IF col = <<>> THEN NaN
    ELSE LET h == Head(col)
             m == SeriesMax(Tail(col))
         IN IF IsNaN(h) THEN m
            ELSE IF IsNaN(m) THEN h
            ELSE IF RLt(m, h) THEN h ELSE m

Perms(n) == {p \in [1..n -> 1..n] : \A i, j \in 1..n : i # j => p[i] # p[j]}

\* sort_values(key, ascending=False) with the default kind "quicksort", which
\* is not stable; keys is the key column of rows. Every order that is descending in key, NaN last (na_position
\* "last", in their original order), rows with equal keys in any order.
sort_values_desc(rows, keys) ==
    LET n == Len(rows)
        ok(p) == \A i, j \in 1..n : i < j =>
                    LET a == keys[p[i]]
                        b == keys[p[j]]
                    IN /\ ~(IsNaN(a) /\ notna(b))
                       /\ ~RLt(a, b)
                       /\ (IsNaN(a) /\ IsNaN(b)) => p[i] < p[j]
    IN {[i \in 1..n |-> rows[p[i]]] : p \in {q \in Perms(n) : ok(q)}}

\* ------------------------------------------------ retrival_system.py
\* A vector store answers a query with its entries nearest first; store is
\* that answer for the query at hand: rows [doc_id, score], score a distance.
DocIds == 1..NumDocs

RawScores == {Rat(k, 1) : k \in 0..MaxScore}

NoColumns == [cols |-> {}, rows |-> <<>>]

\* vectorstore.similarity_search_with_score(q, k): the k nearest entries
similarity_search_with_score(vs, k) == head(vs, Max(k, 0))

\* search_multilingual: one row per result, ranks from 1; pd.DataFrame([]) is
\* a frame without columns
search_multilingual(vs, k) ==
    LET results == similarity_search_with_score(vs, k)
    IN IF results = <<>> THEN NoColumns
       ELSE [cols |-> {"rank", "score", "doc_id", "lang", "text"},
             rows |-> [i \in 1..Len(results) |->
                          [rank |-> i, score |-> results[i].score,
                           doc_id |-> results[i].doc_id]]]

\* df_sem.rename(columns={"score": "sem_score"})
rename_score(f) ==
    [cols |-> (f.cols \ {"score"}) \cup (IF "score" \in f.cols THEN {"sem_score"} ELSE {}),
     rows |-> [i \in 1..Len(f.rows) |->
                  [rank |-> f.rows[i].rank, sem_score |-> f.rows[i].score,
                   doc_id |-> f.rows[i].doc_id]]]

\* df["sem_score"] and df["bm25_score"]
SemScores(rows) == [i \in 1..Len(rows) |-> rows[i].sem_score]

Bm25Scores(rows) == [i \in 1..Len(rows) |-> rows[i].bm25_score]

\* search_bm25: meta with the scores bm25.get_scores gave, sorted descending,
\* the first k rows, ranks from 1. meta rows are [doc_id, bm25_score].
search_bm25(m, k) ==
    {[cols |-> {"rank", "bm25_score", "doc_id", "lang", "text"},
      rows |-> [i \in 1..Len(head(s, k)) |->
                   [rank |-> i, bm25_score |-> s[i].bm25_score, doc_id |-> s[i].doc_id]]]
        : s \in sort_values_desc(m, Bm25Scores(m))}

KeysOf(rows) == {rows[i].doc_id : i \in 1..Len(rows)}

WithKey(rows, k) == SelectSeq(rows, LAMBDA r : r.doc_id = k)

\* the rows pd.merge(how="outer") gives for one key: the product of the rows
\* of both sides that carry it, or the rows of the one side with NaN for the
\* other side's score
MergeKey(L, R, k) ==
    LET l == WithKey(L, k)
        r == WithKey(R, k)
        nl == Len(l)
        nr == Len(r)
    IN IF nl > 0 /\ nr > 0
       THEN [i \in 1..(nl * nr) |->
                [doc_id |-> k,
                 sem_score |-> l[((i - 1) \div nr) + 1].sem_score,
                 bm25_score |-> r[((i - 1) % nr) + 1].bm25_score]]
       ELSE IF nl > 0
       THEN [i \in 1..nl |-> [doc_id |-> k, sem_score |-> l[i].sem_score, bm25_score |-> NaN]]
       ELSE [i \in 1..nr |-> [doc_id |-> k, sem_score |-> NaN, bm25_score |-> r[i].bm25_score]]

\* pd.merge(..., on="doc_id", how="outer"): the union of the keys of both
\* frames, keys in ascending order
RECURSIVE MergeKeys(_, _, _)
MergeKeys(L, R, keys) ==
    IF keys = {} THEN <<>>
    ELSE LET k == CHOOSE x \in keys : \A y \in keys : x <= y
         IN MergeKey(L, R, k) \o MergeKeys(L, R, keys \ {k})

merge_outer(L, R) == MergeKeys(L, R, KeysOf(L) \cup KeysOf(R))


\* lines 105-112: sem_norm is 0.0 unless the largest distance is a non-zero
\* number, and then 1 - sem_score / sem_max, row by row
SemNorm(rows) ==
    LET sem_max == SeriesMax(SemScores(rows))
    IN IF notna(sem_max) /\ sem_max # Zero
       THEN [i \in 1..Len(rows) |-> RSub(One, RDiv(rows[i].sem_score, sem_max))]
       ELSE [i \in 1..Len(rows) |-> Zero]

\* the lexical normalisation written like the semantic one
Bm25NormAsDistance(rows) ==
    LET bm_max == SeriesMax(Bm25Scores(rows))
    IN IF notna(bm_max) /\ bm_max # Zero
       THEN [i \in 1..Len(rows) |-> RSub(One, RDiv(rows[i].bm25_score, bm_max))]
       ELSE [i \in 1..Len(rows) |-> Zero]

\* lines 106-115: bm25_norm is 0.0 unless the largest score is a non-zero
\* number, and then bm25_score / bm_max, row by row
Bm25Norm(rows) ==
    LET bm_max == SeriesMax(Bm25Scores(rows))
    IN IF notna(bm_max) /\ bm_max # Zero
       THEN [i \in 1..Len(rows) |-> RDiv(rows[i].bm25_score, bm_max)]
       ELSE [i \in 1..Len(rows) |-> Zero]

\* line 117
HybridScore(a, sem_norm, bm25_norm) ==
    RAdd(RMul(a, sem_norm), RMul(RSub(One, a), bm25_norm))

\* lines 105-117 on the merged frame
Scored(rows, a) ==
    LET sn == SemNorm(rows)
        bn == Bm25Norm(rows)
    IN [i \in 1..Len(rows) |->
           [doc_id |-> rows[i].doc_id,
            sem_score |-> rows[i].sem_score, bm25_score |-> rows[i].bm25_score,
            sem_norm |-> sn[i], bm25_norm |-> bn[i],
            hybrid_score |-> HybridScore(a, sn[i], bn[i])]]

\* lines 119-122: sort, head(top_k), rank = index + 1, the returned columns
Ranked(rows, k) ==
    {[i \in 1..Len(head(s, k)) |->
         [rank |-> i, hybrid_score |-> s[i].hybrid_score, doc_id |-> s[i].doc_id]]
        : s \in sort_values_desc(rows, [i \in 1..Len(rows) |-> rows[i].hybrid_score])}

\* the inputs of a query
Alphas == {Rat(a, AlphaDen) : a \in (-1)..(AlphaDen + 1)}

TopKs == 0..MaxTopK

Metas == SeqsUpTo([doc_id : DocIds, bm25_score : RawScores], 1, MaxCorpus)

Stores ==
    {s \in SeqsUpTo([doc_id : DocIds, score : RawScores], 0, MaxStore) :
        \A i \in 1..(Len(s) - 1) : RLeq(s[i].score, s[i + 1].score)}

\* ---------------------------------------------------- streamlit_app.py
CsvColumns == {"doc_id", "lang", "text", "en_translation"}

NoFile == [present |-> FALSE, readable |-> FALSE, columns |-> {}]

\* what the user can put in the file uploader: a file pd.read_csv cannot read,
\* or a CSV with some of the columns
CsvFiles ==
    {[present |-> TRUE, readable |-> FALSE, columns |-> {}]} \cup
    {[present |-> TRUE, readable |-> TRUE, columns |-> c] : c \in SUBSET CsvColumns}

NoneDf == [is_none |-> TRUE, columns |-> {}]

DataFrame(c) == [is_none |-> FALSE, columns |-> c]

Never == [s |-> "Never", t |-> 0]

\* datetime.datetime.now().strftime("%Y-%m-%d %H:%M:%S") at time t
strftime(t) == [s |-> "%Y-%m-%d %H:%M:%S", t |-> t]

\* lines 87-92, the first run of the script in a session
AppIdle ==
    /\ uploaded_file = NoFile
    /\ vectorstore = "None"
    /\ docs_df = NoneDf
    /\ last_build_time = Never
    /\ now = 0
    /\ alert = "none"
    /\ ran = "first"

Init ==
    /\ store \in Stores
    /\ meta \in Metas
    /\ top_k \in TopKs
    /\ alpha \in Alphas
    /\ pc = "start"
    /\ err = "none"
    /\ df_sem = NoColumns
    /\ df_bm = NoColumns
    /\ df = <<>>
    /\ result = <<>>
    /\ sem_calls = 0
    /\ bm_calls = 0
    /\ AppIdle
    /\ backend_up = TRUE

\* line 89-90: the call into the vector store returns, raises or never returns
CallSemantic ==
    /\ pc = "start"
    /\ sem_calls' = sem_calls + 1
    /\ \E outcome \in {"returns", "raises", "hangs"} :
          IF outcome = "returns"
          THEN /\ df_sem' = rename_score(search_multilingual(store, top_k * 2))
               /\ pc' = "sem_done"
               /\ err' = err
          ELSE IF outcome = "raises"
          THEN /\ pc' = "raised"
               /\ err' = "BackendError"
               /\ df_sem' = df_sem
          ELSE /\ pc' = "blocked"
               /\ err' = err
               /\ df_sem' = df_sem
    /\ UNCHANGED <<store, meta, top_k, alpha, df_bm, df, result, bm_calls, appVars>>

\* line 92
CallBm25 ==
    /\ pc = "sem_done"
    /\ bm_calls' = bm_calls + 1
    /\ df_bm' \in search_bm25(meta, top_k * 2)
    /\ pc' = "bm_done"
    /\ UNCHANGED <<store, meta, top_k, alpha, err, df_sem, df, result, sem_calls, appVars>>

\* lines 94-103: selecting the four columns of a frame that has none raises
Merge ==
    /\ pc = "bm_done"
    /\ IF {"doc_id", "lang", "text", "sem_score"} \subseteq df_sem.cols
       THEN /\ df' = [i \in 1..Len(merge_outer(df_sem.rows, df_bm.rows)) |->
                         [doc_id |-> merge_outer(df_sem.rows, df_bm.rows)[i].doc_id,
                          sem_score |-> merge_outer(df_sem.rows, df_bm.rows)[i].sem_score,
                          bm25_score |-> merge_outer(df_sem.rows, df_bm.rows)[i].bm25_score,
                          sem_norm |-> NaN, bm25_norm |-> NaN, hybrid_score |-> NaN]]
            /\ pc' = "merged"
            /\ err' = err
       ELSE /\ pc' = "raised"
            /\ err' = "KeyError"
            /\ df' = df
    /\ UNCHANGED <<store, meta, top_k, alpha, df_sem, df_bm, result, sem_calls, bm_calls, appVars>>

\* lines 105-117
Score ==
    /\ pc = "merged"
    /\ df' = Scored(df, alpha)
    /\ pc' = "scored"
    /\ UNCHANGED <<store, meta, top_k, alpha, err, df_sem, df_bm, result, sem_calls,
                   bm_calls, appVars>>

\* lines 119-122
SortHead ==
    /\ pc = "scored"
    /\ result' \in Ranked(df, top_k)
    /\ pc' = "returned"
    /\ UNCHANGED <<store, meta, top_k, alpha, err, df_sem, df_bm, df, sem_calls,
                   bm_calls, appVars>>

search_hybrid == CallSemantic \/ CallBm25 \/ Merge \/ Score \/ SortHead

Next == search_hybrid

Spec == Init /\ [][Next]_vars

\* ------------------------------------ the normalisation on its own
\* Scores of a batch given to lines 105-117 directly: NaN (the document is
\* missing from that stream) or k/ScaleDen, values above 1 included.
BatchScores == {NaN} \cup {Rat(k, ScaleDen) : k \in 0..(ScaleDen + 1)}

ScorePairs ==
    {p \in [sem_score : BatchScores, bm25_score : BatchScores] :
        notna(p.sem_score) \/ notna(p.bm25_score)}

\* the merged frame of the documents ids with the scores f, in key order
RECURSIVE BatchOf(_, _)
BatchOf(f, ids) ==
    IF ids = {} THEN <<>>
    ELSE LET k == CHOOSE x \in ids : \A y \in ids : x <= y
         IN <<[doc_id |-> k, sem_score |-> f[k].sem_score, bm25_score |-> f[k].bm25_score,
               sem_norm |-> NaN, bm25_norm |-> NaN, hybrid_score |-> NaN]>>
            \o BatchOf(f, ids \ {k})

BatchIds == {x \in SUBSET DocIds : x # {} /\ Cardinality(x) <= MaxBatch}

NormInit ==
    /\ store = <<>>
    /\ meta = <<>>
    /\ top_k = 1
    /\ alpha \in {Rat(a, AlphaDen) : a \in 0..AlphaDen}
    /\ pc = "merged"
    /\ err = "none"
    /\ df_sem = NoColumns
    /\ df_bm = NoColumns
    /\ \E ids \in BatchIds : \E f \in [ids -> ScorePairs] : df = BatchOf(f, ids)
    /\ result = <<>>
    /\ sem_calls = 0
    /\ bm_calls = 0
    /\ AppIdle
    /\ backend_up = TRUE

NormNext == Score

NormSpec == NormInit /\ [][NormNext]_vars

\* ------------------------------------------- streamlit_app.py, a session
RequiredCols == {"doc_id", "lang", "text"}

\* retrival_system.insert_docs(df): the parameters its signature accepts
InsertDocsParams == {"df"}

\* a call of insert_docs with df given by position and the keywords kw: a
\* keyword the signature does not have is a TypeError before the body runs;
\* the body embeds the documents and raises when the backend is down
insert_docs(kw, backend) ==
    IF ~(kw \subseteq (InsertDocsParams \ {"df"}))
    THEN [raised |-> "TypeError", vs |-> "None"]
    ELSE IF backend
    THEN [raised |-> "none", vs |-> "Chroma"]
    ELSE [raised |-> "BackendError", vs |-> "None"]

\* build_vectorstore(df), lines 97-112: what it raises, returns and displays
build_vectorstore(columns, backend) ==
    IF RequiredCols \ columns # {}
    THEN [raised |-> "none", vs |-> "None", alert |-> "error_missing_columns"]
    ELSE LET r == insert_docs({"persist_dir"}, backend)
         IN IF r.raised # "none"
            THEN [raised |-> r.raised, vs |-> "None", alert |-> "none"]
            ELSE [raised |-> "none", vs |-> r.vs, alert |-> "success"]

\* lines 131-138: the status panel takes len(docs_df) once a vectorstore is set
StatusPanelRaises == vectorstore # "None" /\ docs_df.is_none

\* an exception that escapes the script: Streamlit shows it, the run ends
ScriptException ==
    /\ alert' = "script_exception"
    /\ UNCHANGED <<vectorstore, docs_df, last_build_time>>

\* lines 165-180, the variant that stores the frame as soon as it is read
HandleBuildEarlyAssign ==
    IF ~uploaded_file.present
    THEN /\ alert' = "warning_upload_first"
         /\ UNCHANGED <<vectorstore, docs_df, last_build_time>>
    ELSE IF ~uploaded_file.readable
    THEN /\ alert' = "error_processing_csv"
         /\ UNCHANGED <<vectorstore, docs_df, last_build_time>>
    ELSE LET b == build_vectorstore(uploaded_file.columns, backend_up)
         IN /\ docs_df' = DataFrame(uploaded_file.columns)
            /\ IF b.raised # "none"
               THEN /\ alert' = "error_processing_csv"
                    /\ UNCHANGED <<vectorstore, last_build_time>>
               ELSE IF b.vs # "None"
               THEN /\ vectorstore' = b.vs
                    /\ last_build_time' = strftime(now')
                    /\ alert' = "none"
               ELSE /\ alert' = b.alert
                    /\ UNCHANGED <<vectorstore, last_build_time>>

\* lines 165-180: the Build button's handler. st.rerun() after a successful
\* build starts the script again, which clears what the run displayed.
HandleBuild ==
    IF ~uploaded_file.present
    THEN /\ alert' = "warning_upload_first"
         /\ UNCHANGED <<vectorstore, docs_df, last_build_time>>
    ELSE IF ~uploaded_file.readable
    THEN /\ alert' = "error_processing_csv"
         /\ UNCHANGED <<vectorstore, docs_df, last_build_time>>
    ELSE LET b == build_vectorstore(uploaded_file.columns, backend_up)
         IN IF b.raised # "none"
            THEN /\ alert' = "error_processing_csv"
                 /\ UNCHANGED <<vectorstore, docs_df, last_build_time>>
            ELSE IF b.vs # "None"
            THEN /\ vectorstore' = b.vs
                 /\ docs_df' = DataFrame(uploaded_file.columns)
                 /\ last_build_time' = strftime(now')
                 /\ alert' = "none"
            ELSE /\ alert' = b.alert
                 /\ UNCHANGED <<vectorstore, docs_df, last_build_time>>

\* lines 202-260: the Search button's handler; a failing backend or a
\* docs_df that is None raises inside the try
HandleSearch ==
    /\ alert' = IF ~backend_up \/ docs_df.is_none THEN "error_search_failed" ELSE "results"
    /\ UNCHANGED <<vectorstore, docs_df, last_build_time>>

\* the buttons the last run drew: Build always (line 153), Search once a
\* vectorstore is set (lines 187-200)
RenderedButtons == {"build"} \cup (IF vectorstore # "None" THEN {"search"} ELSE {})

\* a click reruns the script with that button True
ClickButton ==
    /\ now < MaxClock
    /\ now' = now + 1
    /\ \E btn \in RenderedButtons :
          /\ ran' = btn
          /\ IF StatusPanelRaises THEN ScriptException
             ELSE IF btn = "build" THEN HandleBuild
             ELSE HandleSearch
    /\ UNCHANGED <<uploaded_file, backend_up, searchVars>>

\* the user puts a file in the uploader or clears it: a rerun with no button
UploadFile ==
    /\ now < MaxClock
    /\ now' = now + 1
    /\ \E f \in CsvFiles \cup {NoFile} :
          /\ f # uploaded_file
          /\ uploaded_file' = f
    /\ ran' = "upload"
    /\ IF StatusPanelRaises THEN ScriptException
       ELSE /\ alert' = "none"
            /\ UNCHANGED <<vectorstore, docs_df, last_build_time>>
    /\ UNCHANGED <<backend_up, searchVars>>

\* the embedding backend (Ollama) goes down or comes back
BackendChanges ==
    /\ backend_up' = ~backend_up
    /\ UNCHANGED <<uploaded_file, vectorstore, docs_df, last_build_time, now, alert, ran,
                   searchVars>>

AppInit ==
    /\ store = <<>>
    /\ meta = <<>>
    /\ top_k = 1
    /\ alpha = One
    /\ pc = "start"
    /\ err = "none"
    /\ df_sem = NoColumns
    /\ df_bm = NoColumns
    /\ df = <<>>
    /\ result = <<>>
    /\ sem_calls = 0
    /\ bm_calls = 0
    /\ AppIdle
    /\ backend_up \in BOOLEAN

AppNext == ClickButton \/ UploadFile \/ BackendChanges

AppSpec == AppInit /\ [][AppNext]_vars

\* =================================================================
\* The claims
\* =================================================================
\* FusionConfig as the specification states it: top_k > 0, alpha in [0,1]
ValidConfig == top_k >= 1 /\ RLeq(Zero, alpha) /\ RLeq(alpha, One)

\* the normalised score of a stream that lacks the document counts as 0
ZeroIfMissing(raw, norm) == IF IsNaN(raw) THEN Zero ELSE norm

Fused == pc \in {"scored", "returned"}

CandidateKeys == KeysOf(df_sem.rows) \cup KeysOf(df_bm.rows)

\* C1: under a valid configuration every row of the scored union has
\* hybrid_score = alpha * sem_norm + (1 - alpha) * lex_norm, where the
\* normalised score of the stream that does not contain the document is 0.
C1_HybridScoreMissingStreamIsZero ==
    (Fused /\ ValidConfig) =>
        \A i \in 1..Len(df) :
            df[i].hybrid_score =
                RAdd(RMul(alpha, ZeroIfMissing(df[i].sem_score, df[i].sem_norm)),
                     RMul(RSub(One, alpha), ZeroIfMissing(df[i].bm25_score, df[i].bm25_norm)))

\* C2: under a valid configuration every row of the pre-truncation union has
\* a hybrid_score that is a number in [0, 1].
C2_HybridScoreInUnitInterval ==
    (Fused /\ ValidConfig) =>
        \A i \in 1..Len(df) :
            /\ notna(df[i].hybrid_score)
            /\ RLeq(Zero, df[i].hybrid_score)
            /\ RLeq(df[i].hybrid_score, One)

\* C3: the returned rows are in descending hybrid_score order and rows with
\* equal hybrid_score are in ascending doc_id order (stated over the rows
\* whose score is a number).
C3_SortedDescendingTiesByDocId ==
    (pc = "returned" /\ ValidConfig) =>
        \A i, j \in 1..Len(result) :
            (i < j /\ notna(result[i].hybrid_score) /\ notna(result[j].hybrid_score)) =>
                \/ RLt(result[j].hybrid_score, result[i].hybrid_score)
                \/ /\ result[i].hybrid_score = result[j].hybrid_score
                   /\ result[i].doc_id <= result[j].doc_id

\* C4: once both candidate sets are there, a query with a valid
\* configuration returns exactly min(top_k, size of the doc_id union) rows,
\* ranked 1, 2, ..., len in output order.
C4_RowCountAndContiguousRanks ==
    (ValidConfig /\ pc \in {"returned", "raised"} /\ err # "BackendError") =>
        /\ pc = "returned"
        /\ Len(result) = Min(top_k, Cardinality(CandidateKeys))
        /\ \A i \in 1..Len(result) : result[i].rank = i

\* C5: in a query with a valid configuration every doc_id of either
\* candidate set is in the merged union exactly once, and no other doc_id is.
C5_OuterJoinExactlyOnce ==
    (ValidConfig /\ pc \in {"merged", "scored", "returned"}) =>
        \A k \in DocIds :
            Len(WithKey(df, k)) = IF k \in CandidateKeys THEN 1 ELSE 0

\* C6: when the semantic search call of a query with a valid configuration
\* fails or never returns, the query still goes on to return a result, and every semantic normalised score in it is 0.
SemanticFailed == err = "BackendError" \/ pc = "blocked"

C6_SemanticFailureFallsBackToLexical ==
    (ValidConfig /\ SemanticFailed) =>
        /\ pc \notin {"raised", "blocked"}
        /\ Fused => \A i \in 1..Len(df) : df[i].sem_norm = Zero

\* C7: with alpha outside [0,1] or top_k <= 0 the query fails with a
\* ConfigError before either ranker is called and returns nothing.
C7_InvalidConfigFailsFast ==
    ~ValidConfig =>
        /\ sem_calls = 0
        /\ bm_calls = 0
        /\ pc \in {"start", "raised"}
        /\ pc = "raised" => err = "ConfigError"

\* a stream's batch that is already normalised: its scores (the documents the
\* stream has) lie in [0,1] and their maximum is 1
AlreadyNormalised(col) ==
    /\ SeriesMax(col) = One
    /\ \A i \in 1..Len(col) : notna(col[i]) => (RLeq(Zero, col[i]) /\ RLeq(col[i], One))

SemCol == SemScores(df)

BmCol == Bm25Scores(df)

\* C8 as stated: normalising an already normalised batch leaves every score
\* unchanged, in the semantic stream as in the lexical one.
C8_NormalisationIdempotentBothStreams ==
    (pc = "scored") =>
        /\ AlreadyNormalised(SemCol) =>
              \A i \in 1..Len(df) : notna(df[i].sem_score) => df[i].sem_norm = df[i].sem_score
        /\ AlreadyNormalised(BmCol) =>
              \A i \in 1..Len(df) : notna(df[i].bm25_score) => df[i].bm25_norm = df[i].bm25_score

\* C8, amended: the lexical normalisation leaves every score of an already
\* normalised batch unchanged; the semantic (distance) normalisation maps
\* every score s of such a batch to 1 - s.
C8_LexicalIdempotentSemanticComplement ==
    (pc = "scored") =>
        /\ AlreadyNormalised(SemCol) =>
              \A i \in 1..Len(df) :
                  notna(df[i].sem_score) => df[i].sem_norm = RSub(One, df[i].sem_score)
        /\ AlreadyNormalised(BmCol) =>
              \A i \in 1..Len(df) : notna(df[i].bm25_score) => df[i].bm25_norm = df[i].bm25_score

\* C8's case: both streams already normalised, with a lexical score strictly
\* between 0 and 1 and a semantic score that is not 1/2, normalised again
C8_Witness ==
    /\ pc = "scored"
    /\ AlreadyNormalised(SemCol)
    /\ AlreadyNormalised(BmCol)
    /\ \E i \in 1..Len(df) : RLt(Zero, df[i].bm25_score) /\ RLt(df[i].bm25_score, One)
    /\ \E i \in 1..Len(df) : notna(df[i].sem_score) /\ df[i].sem_score # RSub(One, df[i].sem_score)

SessionUnset == vectorstore = "None" /\ docs_df.is_none /\ last_build_time = Never

SessionSet == vectorstore # "None" /\ ~docs_df.is_none /\ last_build_time # Never

\* C9: a Build run with an uploaded CSV that has doc_id, lang and text, the
\* backend up, ends with vectorstore, docs_df and last_build_time all set.
C9_BuildWithValidCsvSetsSession ==
    (/\ ran = "build"
     /\ uploaded_file.present
     /\ uploaded_file.readable
     /\ RequiredCols \subseteq uploaded_file.columns
     /\ backend_up) => SessionSet

FailedBuildAlerts == {"warning_upload_first", "error_missing_columns", "error_processing_csv"}

\* C10: in every state of a session the three fields are all unset or all
\* set, no run dereferences docs_df while it is None, and a Build run that
\* fails leaves the three fields as they were.
C10_SessionFieldsSetTogether ==
    /\ [](SessionUnset \/ SessionSet)
    /\ [](alert # "script_exception" /\ ~(alert = "error_search_failed" /\ docs_df.is_none))
    /\ [][(ran' = "build" /\ alert' \in FailedBuildAlerts)
            => UNCHANGED <<vectorstore, docs_df, last_build_time>>]_vars

\* C10's case: a Build run on a CSV with the required columns failed while
\* indexing and the session is as it was
C10_Witness ==
    /\ ran = "build"
    /\ alert = "error_processing_csv"
    /\ uploaded_file.readable
    /\ RequiredCols \subseteq uploaded_file.columns
    /\ SessionUnset

====
